---- MODULE Spec2Model ----
(***************************************************************************)
(* Bit permutations (nth_bit_permutation.cpp): Pascal's triangle, the rank *)
(* of a bit permutation and the bit permutation of a rank.                 *)
(*                                                                         *)
(* `unsigned` is a 32-bit word.  Words are represented by the naturals     *)
(* they denote; indices of the C++ vectors are 0-based and the sequences   *)
(* here are 1-based, so pascalt[row][col] of the code is At(t, row, col).  *)
(***************************************************************************)
EXTENDS Integers, Sequences, FiniteSets, TLC

\* #define MAXBITS 32
MAXBITS == 32

\* widest class (ntotbits) a caller passes under Spec
MaxWidth == 8
\* widest class a caller passes under SpecPar (two calls in flight)
MaxWidthPar == 3

VARIABLES
    pascalt,   \* the global table: a sequence of rows
    main,      \* where main() is: "start", "build" (inside make_pascal_triangle), "ready"
    i,         \* loop counter of make_pascal_triangle
    rk,        \* the activation of rank_from_permutation (arguments and locals)
    ur         \* the activation of permutation_from_rank (arguments and locals)

vars == <<pascalt, main, i, rk, ur>>

----------------------------------------------------------------------------
(* 32-bit unsigned arithmetic *)

RECURSIVE Pow2(_)
Pow2(n) == IF n = 0 THEN 1 ELSE 2 * Pow2(n - 1)

\* half a word: sums are formed on 16-bit halves so that the carry out of
\* bit 31 is visible
Half == Pow2(16)

\* the carry out of bit 31 of a + b
Carry32(a, b) ==
    LET lo == (a % Half) + (b % Half)
        hi == (a \div Half) + (b \div Half) + (lo \div Half)
    IN  hi \div Half

\* a + b on unsigned: the sum modulo 2^32
AddU32(a, b) ==
    LET lo == (a % Half) + (b % Half)
        hi == (a \div Half) + (b \div Half) + (lo \div Half)
    IN  (hi % Half) * Half + (lo % Half)

RECURSIVE BitAnd(_, _)
BitAnd(a, b) ==
    IF a = 0 \/ b = 0 THEN 0
    ELSE (a % 2) * (b % 2) + 2 * BitAnd(a \div 2, b \div 2)

RECURSIVE BitOr(_, _)
BitOr(a, b) ==
    IF a = 0 THEN b
    ELSE IF b = 0 THEN a
    ELSE (IF a % 2 = 1 \/ b % 2 = 1 THEN 1 ELSE 0) + 2 * BitOr(a \div 2, b \div 2)

\* values a shift by a count >= the word width may leave in the word
\* (1 << (ntotbits-1) with ntotbits = 0 is undefined): no bit, the low bit,
\* a high bit
UndefinedShift == {0, 1, Pow2(30)}

\* values an undefined read may deliver
Garbage == {0, 1, 7}

InitialMaskWrongShift(ntotbits, u) == Pow2(ntotbits)

\* 1 << (ntotbits-1); u is the outcome when the shift is undefined
InitialMask(ntotbits, u) == IF ntotbits >= 1 THEN Pow2(ntotbits - 1) ELSE u

----------------------------------------------------------------------------
(* the table *)

InBounds(t, row, col) ==
    /\ row >= 0 /\ row < Len(t)
    /\ col >= 0 /\ col < Len(t[row + 1])

At(t, row, col) == t[row + 1][col + 1]

\* one row of the triangle from the row above it (body of the outer loop)
PascalRowDropLast(prev) ==
    <<prev[1]>> \o [j \in 1..(Len(prev) - 1) |-> AddU32(prev[j], prev[j + 1])]

PascalRow(prev) ==
    <<prev[1]>>
        \o [j \in 1..(Len(prev) - 1) |-> AddU32(prev[j], prev[j + 1])]
        \o <<prev[Len(prev)]>>

----------------------------------------------------------------------------
(* rank_from_permutation *)

\* the state of an activation that is not running.  Besides the arguments
\* and locals of the code an activation records iters, the number of passes
\* through the loop body so far, and oob, whether it has indexed pascalt
\* outside its rows.
RankIdle ==
    [pc |-> "idle", bitmap |-> 0, ntotbits |-> 0, nsetbits |-> 0, total |-> 0,
     row |-> 0, col |-> 0, thisbit |-> 0, iters |-> 0, oob |-> FALSE]

\* the locals at the first loop head (lines 38-41)
RankEntry(bitmap, ntotbits, nsetbits, u) ==
    [pc |-> "loop", bitmap |-> bitmap, ntotbits |-> ntotbits, nsetbits |-> nsetbits,
     total |-> 0, row |-> ntotbits, col |-> ntotbits - nsetbits,
     thisbit |-> InitialMask(ntotbits, u), iters |-> 0, oob |-> FALSE]

\* an index outside the table was used: the behaviour is undefined, the call
\* ends with whatever value g the build produces
RankUndefined(s, g) == [s EXCEPT !.pc = "done", !.oob = TRUE, !.total = g]

\* one pass through the loop body (lines 43-52), from loop head to loop head
\* or to the return.  row-- at 0 and col-- at 0 wrap to 2^32-1, an index no
\* row of the table has.
RankIterWrongColumn(t, s, g) ==
    IF ~InBounds(t, s.row, s.col) THEN RankUndefined(s, g)
    ELSE IF At(t, s.row, s.col) = 1 THEN [s EXCEPT !.pc = "done"]
    ELSE IF s.row = 0 THEN RankUndefined(s, g)
    ELSE IF BitAnd(s.bitmap, s.thisbit) # 0
         THEN IF ~InBounds(t, s.row - 1, s.col) THEN RankUndefined(s, g)
              ELSE [s EXCEPT !.row = s.row - 1,
                             !.total = AddU32(s.total, At(t, s.row - 1, s.col)),
                             !.thisbit = s.thisbit \div 2,
                             !.iters = s.iters + 1]
         ELSE IF s.col = 0 THEN RankUndefined(s, g)
              ELSE [s EXCEPT !.row = s.row - 1,
                             !.col = s.col - 1,
                             !.thisbit = s.thisbit \div 2,
                             !.iters = s.iters + 1]

RankIterNoShift(t, s, g) ==
    IF ~InBounds(t, s.row, s.col) THEN RankUndefined(s, g)
    ELSE IF At(t, s.row, s.col) = 1 THEN [s EXCEPT !.pc = "done"]
    ELSE IF s.row = 0 THEN RankUndefined(s, g)
    ELSE IF BitAnd(s.bitmap, s.thisbit) # 0
         THEN IF ~InBounds(t, s.row - 1, s.col - 1) THEN RankUndefined(s, g)
              ELSE [s EXCEPT !.row = s.row - 1,
                             !.total = AddU32(s.total, At(t, s.row - 1, s.col - 1)),
                             !.iters = s.iters + 1]
         ELSE IF s.col = 0 THEN RankUndefined(s, g)
              ELSE [s EXCEPT !.row = s.row - 1,
                             !.col = s.col - 1,
                             !.iters = s.iters + 1]

RankIter(t, s, g) ==
    IF ~InBounds(t, s.row, s.col) THEN RankUndefined(s, g)
    ELSE IF At(t, s.row, s.col) = 1 THEN [s EXCEPT !.pc = "done"]
    ELSE IF s.row = 0 THEN RankUndefined(s, g)
    ELSE IF BitAnd(s.bitmap, s.thisbit) # 0
         THEN IF ~InBounds(t, s.row - 1, s.col - 1) THEN RankUndefined(s, g)
              ELSE [s EXCEPT !.row = s.row - 1,
                             !.total = AddU32(s.total, At(t, s.row - 1, s.col - 1)),
                             !.thisbit = s.thisbit \div 2,
                             !.iters = s.iters + 1]
         ELSE IF s.col = 0 THEN RankUndefined(s, g)
              ELSE [s EXCEPT !.row = s.row - 1,
                             !.col = s.col - 1,
                             !.thisbit = s.thisbit \div 2,
                             !.iters = s.iters + 1]

RECURSIVE RankRun(_, _, _)
RankRun(t, s, g) == IF s.pc = "done" THEN s ELSE RankRun(t, RankIter(t, s, g), g)

\* the whole function on table t: the activation at its return
rank_from_permutation(t, bitmap, ntotbits, nsetbits, u, g) ==
    RankRun(t, RankEntry(bitmap, ntotbits, nsetbits, u), g)

----------------------------------------------------------------------------
(* permutation_from_rank *)

UnrankIdle ==
    [pc |-> "idle", rank0 |-> 0, ntotbits |-> 0, nsetbits |-> 0, rank |-> 0,
     res |-> 0, row |-> 0, col |-> 0, thisbit |-> 0, iters |-> 0, oob |-> FALSE]

\* the locals at the first loop head (lines 60-63); rank0 keeps the argument
UnrankEntry(rank, ntotbits, nsetbits, u) ==
    [pc |-> "loop", rank0 |-> rank, ntotbits |-> ntotbits, nsetbits |-> nsetbits,
     rank |-> rank, res |-> 0, row |-> ntotbits, col |-> ntotbits - nsetbits,
     thisbit |-> InitialMask(ntotbits, u), iters |-> 0, oob |-> FALSE]

UnrankUndefined(s, g) == [s EXCEPT !.pc = "done", !.oob = TRUE, !.res = g]

\* one pass through the loop body (lines 65-72)
UnrankIterOffByOne(t, s, g) ==
    IF s.row = 0 THEN [s EXCEPT !.pc = "done"]
    ELSE IF s.col > 0 /\ ~InBounds(t, s.row - 1, s.col - 1) THEN UnrankUndefined(s, g)
    ELSE IF s.col > 0 /\ s.rank <= At(t, s.row - 1, s.col - 1)
         THEN [s EXCEPT !.row = s.row - 1,
                        !.col = s.col - 1,
                        !.thisbit = s.thisbit \div 2,
                        !.iters = s.iters + 1]
         ELSE [s EXCEPT !.row = s.row - 1,
                        !.rank = IF s.col > 0
                                 THEN s.rank - At(t, s.row - 1, s.col - 1)
                                 ELSE s.rank,
                        !.res = BitOr(s.res, s.thisbit),
                        !.thisbit = s.thisbit \div 2,
                        !.iters = s.iters + 1]

UnrankIter(t, s, g) ==
    IF s.row = 0 THEN [s EXCEPT !.pc = "done"]
    ELSE IF s.col > 0 /\ ~InBounds(t, s.row - 1, s.col - 1) THEN UnrankUndefined(s, g)
    ELSE IF s.col > 0 /\ s.rank < At(t, s.row - 1, s.col - 1)
         THEN [s EXCEPT !.row = s.row - 1,
                        !.col = s.col - 1,
                        !.thisbit = s.thisbit \div 2,
                        !.iters = s.iters + 1]
         ELSE [s EXCEPT !.row = s.row - 1,
                        !.rank = IF s.col > 0
                                 THEN s.rank - At(t, s.row - 1, s.col - 1)
                                 ELSE s.rank,
                        !.res = BitOr(s.res, s.thisbit),
                        !.thisbit = s.thisbit \div 2,
                        !.iters = s.iters + 1]

RECURSIVE UnrankRun(_, _, _)
UnrankRun(t, s, g) == IF s.pc = "done" THEN s ELSE UnrankRun(t, UnrankIter(t, s, g), g)

\* the whole function on table t: the activation at its return
permutation_from_rank(t, rank, ntotbits, nsetbits, u, g) ==
    UnrankRun(t, UnrankEntry(rank, ntotbits, nsetbits, u), g)

----------------------------------------------------------------------------
(* mathematics the properties are stated with *)

\* the binomial coefficient n choose k, exactly, by
\* C(n,k) = C(n,k-1) * (n-k+1) / k; the product is formed on the quotient
\* and remainder of C(n,k-1) by k, so no intermediate value exceeds the result
RECURSIVE Binomial(_, _)
Binomial(n, k) ==
    IF k < 0 \/ k > n THEN 0
    ELSE IF k = 0 THEN 1
    ELSE LET c == Binomial(n, k - 1)
             m == n - k + 1
         IN  (c \div k) * m + ((c % k) * m) \div k

RECURSIVE PopCount(_)
PopCount(b) == IF b = 0 THEN 0 ELSE (b % 2) + PopCount(b \div 2)

\* b is a bit-vector of class (n,k)
InClass(b, n, k) == b >= 0 /\ b < Pow2(n) /\ PopCount(b) = k

\* the number of members of class (n,k) numerically smaller than b
CountBelow(b, k) == Cardinality({x \in 0..(b - 1) : PopCount(x) = k})

----------------------------------------------------------------------------
(* the program *)

Init ==
    /\ pascalt = << >>
    /\ main = "start"
    /\ i = 0
    /\ rk = RankIdle
    /\ ur = UnrankIdle

\* make_pascal_triangle, lines 23-25: clear, resize, first row
make_pascal_triangle_enter ==
    /\ main = "start"
    /\ pascalt' = <<(<<1>>)>> \o [r \in 1..MAXBITS |-> << >>]
    /\ i' = 1
    /\ main' = "build"
    /\ UNCHANGED <<rk, ur>>

\* make_pascal_triangle, lines 26-33: one iteration of the outer loop
make_pascal_triangle_row ==
    /\ main = "build"
    /\ i <= MAXBITS
    /\ pascalt' = [pascalt EXCEPT ![i + 1] = PascalRow(pascalt[i])]
    /\ i' = i + 1
    /\ UNCHANGED <<main, rk, ur>>

\* make_pascal_triangle, line 34: the loop is over
make_pascal_triangle_return ==
    /\ main = "build"
    /\ i > MAXBITS
    /\ main' = "ready"
    /\ UNCHANGED <<pascalt, i, rk, ur>>

\* the outcomes of the initial shift a call with this width can see
ShiftOutcomes(n) == IF n >= 1 THEN {0} ELSE UndefinedShift

\* a caller enters rank_from_permutation with a class of width <= w and any
\* bitmap of that width; solo: no other call is in flight
RankCall(w, solo) ==
    /\ main = "ready"
    /\ rk.pc = "idle"
    /\ solo => ur.pc = "idle"
    /\ \E n \in 0..w : \E k \in 0..n : \E b \in 0..(Pow2(n) - 1) :
         \E u \in ShiftOutcomes(n) :
            rk' = RankEntry(b, n, k, u)
    /\ UNCHANGED <<pascalt, main, i, ur>>

RankStepWritesTable ==
    /\ rk.pc = "loop"
    /\ \E g \in Garbage : rk' = RankIter(pascalt, rk, g)
    /\ pascalt' = IF InBounds(pascalt, rk.row, rk.col) /\ rk'.total # rk.total
                  THEN [pascalt EXCEPT ![rk.row + 1][rk.col + 1] = rk'.total]
                  ELSE pascalt
    /\ UNCHANGED <<main, i, ur>>

\* one pass through the loop of rank_from_permutation
RankStep ==
    /\ rk.pc = "loop"
    /\ \E g \in Garbage : rk' = RankIter(pascalt, rk, g)
    /\ UNCHANGED <<pascalt, main, i, ur>>

\* the caller has taken the result
RankReturn ==
    /\ rk.pc = "done"
    /\ rk' = RankIdle
    /\ UNCHANGED <<pascalt, main, i, ur>>

\* a caller enters permutation_from_rank with a class of width <= w and a
\* rank in 0..C(n,k), the last being one past the valid range
UnrankCall(w, solo) ==
    /\ main = "ready"
    /\ ur.pc = "idle"
    /\ solo => rk.pc = "idle"
    /\ \E n \in 0..w : \E k \in 0..n : \E r \in 0..Binomial(n, k) :
         \E u \in ShiftOutcomes(n) :
            ur' = UnrankEntry(r, n, k, u)
    /\ UNCHANGED <<pascalt, main, i, rk>>

\* one pass through the loop of permutation_from_rank
UnrankStep ==
    /\ ur.pc = "loop"
    /\ \E g \in Garbage : ur' = UnrankIter(pascalt, ur, g)
    /\ UNCHANGED <<pascalt, main, i, rk>>

UnrankReturn ==
    /\ ur.pc = "done"
    /\ ur' = UnrankIdle
    /\ UNCHANGED <<pascalt, main, i, rk>>

\* main(): the table is made, then calls are made one at a time
Next ==
    \/ make_pascal_triangle_enter
    \/ make_pascal_triangle_row
    \/ make_pascal_triangle_return
    \/ RankCall(MaxWidth, TRUE)
    \/ RankStep
    \/ RankReturn
    \/ UnrankCall(MaxWidth, TRUE)
    \/ UnrankStep
    \/ UnrankReturn

Spec == Init /\ [][Next]_vars

\* the same with a rank call and an unrank call in flight together
NextPar ==
    \/ make_pascal_triangle_enter
    \/ make_pascal_triangle_row
    \/ make_pascal_triangle_return
    \/ RankCall(MaxWidthPar, FALSE)
    \/ RankStep
    \/ RankReturn
    \/ UnrankCall(MaxWidthPar, FALSE)
    \/ UnrankStep
    \/ UnrankReturn

SpecPar == Init /\ [][NextPar]_vars

----------------------------------------------------------------------------
(* properties *)

\* the arguments of the running rank call are a bit-vector of their class
RankValid ==
    rk.pc # "idle" /\ InClass(rk.bitmap, rk.ntotbits, rk.nsetbits)

\* the rank argument of the running unrank call is in [0, C(n,k))
UnrankValid ==
    ur.pc # "idle" /\ ur.rank0 < Binomial(ur.ntotbits, ur.nsetbits)

\* C1: the two functions are mutually inverse on every class: the rank of
\* the bit-vector returned for a valid rank r is r, and the bit-vector of the
\* rank returned for a bit-vector b of the class is b.
RoundTrip ==
    /\ (ur.pc = "done" /\ UnrankValid) =>
          \A u \in ShiftOutcomes(ur.ntotbits) : \A g \in Garbage :
             LET s == rank_from_permutation(pascalt, ur.res, ur.ntotbits,
                                            ur.nsetbits, u, g)
             IN  ~s.oob /\ s.total = ur.rank0
    /\ (rk.pc = "done" /\ RankValid) =>
          \A u \in ShiftOutcomes(rk.ntotbits) : \A g \in Garbage :
             LET s == permutation_from_rank(pascalt, rk.total, rk.ntotbits,
                                            rk.nsetbits, u, g)
             IN  ~s.oob /\ s.res = rk.bitmap

RoundTripWitness ==
    /\ ur.pc = "done" /\ UnrankValid
    /\ ur.ntotbits = 8 /\ ur.nsetbits = 5 /\ ur.rank0 = 19 /\ ur.res > 0

\* C2: the rank returned for a bit-vector of class (n,k) is the number of
\* members of the class numerically smaller than it, and lies in [0, C(n,k)).
RankIsPosition ==
    (rk.pc = "done" /\ RankValid) =>
        /\ ~rk.oob
        /\ rk.total = CountBelow(rk.bitmap, rk.nsetbits)
        /\ rk.total >= 0
        /\ rk.total < Binomial(rk.ntotbits, rk.nsetbits)

RankIsPositionWitness ==
    /\ rk.pc = "done" /\ RankValid
    /\ rk.ntotbits = 8 /\ rk.nsetbits = 5 /\ rk.bitmap = 79 /\ rk.total = 6

\* the first members of class (8,5): 00011111, 00101111, 00110111, 00111011,
\* 00111101, 00111110, 01001111
FirstOf8Choose5 == <<31, 47, 55, 59, 61, 62, 79>>

\* C3: the bit-vector returned for a valid rank r is the (r+1)-th smallest
\* member of the class: it has k set bits, none at position >= n, exactly r
\* members of the class are smaller, and it is larger than the bit-vector
\* returned for r-1; class (8,5) starts 00011111, 00101111, 00110111, ...
UnrankIsNthMember ==
    (ur.pc = "done" /\ UnrankValid) =>
        /\ ~ur.oob
        /\ InClass(ur.res, ur.ntotbits, ur.nsetbits)
        /\ CountBelow(ur.res, ur.nsetbits) = ur.rank0
        /\ ur.rank0 > 0 =>
              \A u \in ShiftOutcomes(ur.ntotbits) : \A g \in Garbage :
                 permutation_from_rank(pascalt, ur.rank0 - 1, ur.ntotbits,
                                       ur.nsetbits, u, g).res < ur.res
        /\ (ur.ntotbits = 8 /\ ur.nsetbits = 5 /\ ur.rank0 < Len(FirstOf8Choose5)) =>
              ur.res = FirstOf8Choose5[ur.rank0 + 1]

UnrankIsNthMemberWitness ==
    /\ ur.pc = "done" /\ UnrankValid
    /\ ur.ntotbits = 8 /\ ur.nsetbits = 5 /\ ur.rank0 = 2 /\ ur.res = 55

\* C4: a rank call whose bitmap has a population count other than nsetbits
\* fails with InvalidArgument before any work: it never reaches the return
\* of a rank value.
WrongPopulationIsRejected ==
    ~(rk.pc = "done" /\ PopCount(rk.bitmap) # rk.nsetbits)

\* C5: an unrank call with rank = C(ntotbits, nsetbits) fails with
\* InvalidArgument: it never reaches the return of a bit-vector (and so never
\* reads outside the table and never returns a value outside the class).
RankOnePastIsRejected ==
    ~(ur.pc = "done" /\ ur.rank0 = Binomial(ur.ntotbits, ur.nsetbits))

\* the binomial coefficients of rows 0..MAXBITS, exactly
ExactTriangle == [r \in 0..MAXBITS |-> [c \in 0..r |-> Binomial(r, c)]]

\* C6: after make_pascal_triangle the table has rows 0..32, row r has r+1
\* entries, every entry is the exact binomial coefficient C(r,c), no 32-bit
\* sum wrapped, the border entries are 1, every interior entry is the sum of
\* the two above it, and every row is symmetric.
TriangleExact ==
    main = "ready" =>
        /\ Len(pascalt) = MAXBITS + 1
        /\ \A r \in 0..MAXBITS :
              /\ Len(pascalt[r + 1]) = r + 1
              /\ At(pascalt, r, 0) = 1
              /\ At(pascalt, r, r) = 1
              /\ \A c \in 0..r :
                    /\ At(pascalt, r, c) = ExactTriangle[r][c]
                    /\ At(pascalt, r, c) = At(pascalt, r, r - c)
                    /\ (0 < c /\ c < r) =>
                          /\ Carry32(At(pascalt, r - 1, c - 1), At(pascalt, r - 1, c)) = 0
                          /\ At(pascalt, r, c) =
                                At(pascalt, r - 1, c - 1) + At(pascalt, r - 1, c)

TriangleExactWitness ==
    /\ main = "ready"
    /\ Len(pascalt) = MAXBITS + 1
    /\ At(pascalt, MAXBITS, 16) = 601080390

\* C7: the boundary classes come out of the general loops: with k = 0 the
\* rank of 0 is 0 and rank 0 gives 0; with k = n the rank of the bit-vector
\* with the n low bits set is 0 and rank 0 gives exactly the n low bits; with
\* n = 0 both return 0 after no iteration, whatever the initial mask is.
BoundaryClasses ==
    /\ (rk.pc = "done" /\ rk.nsetbits = 0 /\ rk.bitmap = 0) =>
          ~rk.oob /\ rk.total = 0
    /\ (rk.pc = "done" /\ rk.nsetbits = rk.ntotbits
           /\ rk.bitmap = Pow2(rk.ntotbits) - 1) =>
          ~rk.oob /\ rk.total = 0
    /\ (rk.pc = "done" /\ rk.ntotbits = 0) => rk.iters = 0
    /\ (ur.pc = "done" /\ ur.nsetbits = 0 /\ ur.rank0 = 0) =>
          ~ur.oob /\ ur.res = 0
    /\ (ur.pc = "done" /\ ur.nsetbits = ur.ntotbits /\ ur.rank0 = 0) =>
          ~ur.oob /\ ur.res = Pow2(ur.ntotbits) - 1
    /\ (ur.pc = "done" /\ ur.ntotbits = 0 /\ ur.rank0 = 0) => ur.iters = 0

BoundaryClassesWitness ==
    /\ ur.pc = "done" /\ ur.ntotbits = 0 /\ ur.nsetbits = 0 /\ ur.rank0 = 0
    /\ ur.thisbit = Pow2(30) /\ ur.res = 0

\* C8: once make_pascal_triangle has returned no step of a rank or unrank
\* call, alone or interleaved with a call of the other, changes the table, and
\* what a call returns is what the function gives on its arguments and the
\* table.
TableImmutable ==
    /\ [][main = "ready" => pascalt' = pascalt]_vars
    /\ [](rk.pc = "done" /\ ~rk.oob =>
             \A u \in ShiftOutcomes(rk.ntotbits) : \A g \in Garbage :
                rk.total = rank_from_permutation(pascalt, rk.bitmap, rk.ntotbits,
                                                 rk.nsetbits, u, g).total)
    /\ [](ur.pc = "done" /\ ~ur.oob =>
             \A u \in ShiftOutcomes(ur.ntotbits) : \A g \in Garbage :
                ur.res = permutation_from_rank(pascalt, ur.rank0, ur.ntotbits,
                                               ur.nsetbits, u, g).res)

TableImmutableWitness ==
    /\ main = "ready"
    /\ rk.pc = "loop" /\ rk.iters > 0 /\ rk.total > 0
    /\ ur.pc = "loop" /\ ur.iters > 0 /\ ur.res > 0

\* C9: in a rank call on a bit-vector of its class, at every loop head col
\* is the number of zero bits among the low `row` bits of the bitmap; at the
\* break the unexamined low `row` bits are all ones (col = 0) or all zeros
\* (col = row), the total is already the rank, and at most ntotbits
\* iterations have run.
RankLoopInvariant ==
    RankValid =>
        /\ rk.row = rk.ntotbits - rk.iters
        /\ rk.iters <= rk.ntotbits
        /\ rk.col = rk.row - PopCount(rk.bitmap % Pow2(rk.row))
        /\ rk.pc = "done" =>
              /\ rk.col = 0 \/ rk.col = rk.row
              /\ rk.col = 0 => rk.bitmap % Pow2(rk.row) = Pow2(rk.row) - 1
              /\ rk.col = rk.row => rk.bitmap % Pow2(rk.row) = 0
              /\ rk.total = CountBelow(rk.bitmap, rk.nsetbits)

RankLoopInvariantWitness ==
    /\ RankValid /\ rk.pc = "done"
    /\ rk.iters > 0 /\ rk.row > 1 /\ rk.col = 0 /\ rk.total > 0

\* C10: with valid arguments every table read of both loops is in bounds
\* (row index <= 32, column index in 0..row); in permutation_from_rank
\* 0 <= col <= row and the remaining rank is below C(row,col) at every loop
\* head, so the subtraction never goes below zero.
ReadsInBounds ==
    /\ RankValid =>
          /\ ~rk.oob
          /\ 0 <= rk.col /\ rk.col <= rk.row /\ rk.row <= MAXBITS
    /\ UnrankValid =>
          /\ ~ur.oob
          /\ 0 <= ur.col /\ ur.col <= ur.row /\ ur.row <= MAXBITS
          /\ 0 <= ur.rank
          /\ ur.rank < Binomial(ur.row, ur.col)

ReadsInBoundsWitness ==
    /\ UnrankValid /\ ur.pc = "loop"
    /\ ur.iters > 0 /\ ur.row > 0 /\ ur.col = ur.row /\ ur.res > 0

====
